---- MODULE Spec2Model ----
(***************************************************************************)
(* Call-signaling layer of the telehealth backend.                         *)
(*                                                                         *)
(* The connection handlers of services/socketService.js (join-room, the    *)
(* offer / answer / ice-candidate relays, the audio / video status         *)
(* broadcasts, disconnect) are modelled from the source, on top of the     *)
(* socket.io room adapter: a room is a named set of sockets, every socket  *)
(* is the only initial member of the room named by its own id,             *)
(* socket.to(r) reaches the members of r except the sender, io.to(r)       *)
(* reaches all of them, and a closing socket has left every room before    *)
(* its 'disconnect' handler runs.                                          *)
(*                                                                         *)
(* The source has no start-call / end-call handler, no call-activity       *)
(* registry and no appointment lookup in the signaling layer: those are    *)
(* modelled from the specification (sections 4.1 - 4.4) and are marked     *)
(* as such where they are defined.  So are the suspension of start-call at *)
(* its appointment read and the per-room serialization of section 5.       *)
(*                                                                         *)
(* Messages travel from the emitting handler to the client over the        *)
(* connection of each addressee, in order.                                 *)
(*                                                                         *)
(* The REST side is modelled from the source as well: the appointment      *)
(* update with its acceptance notification, the notification endpoint      *)
(* behind the token middleware, and the payment handlers over the          *)
(* payments table, each payment creation in two steps around its read.     *)
(***************************************************************************)
EXTENDS Integers, Sequences, FiniteSets, TLC

(* ------------------------------ bounds --------------------------------- *)

\* connections opened over a run of the call-control specification; the
\* relay specification opens one more (sender, target and a third party)
MaxSockets == 2
\* named rooms one socket may be a member of at once (socket.join accumulates)
MaxJoined == 2
\* messages emitted over a run that records the transport
MaxLog == 7
\* rows the payments table holds over a run of the payments specification
MaxPayments == 2
\* rows the notifications table holds over a run of the REST specification
MaxNotes == 2
\* payment requests in progress at once
MaxRequests == 2

Requests == 1..MaxRequests

SocketIds == 1..(MaxSockets + 1)

\* The appointment store holds one appointment, with its patient and its
\* doctor; a third user is a stranger to it.
Appts == {1}
U(i) == <<"user", i>>
UserIds == {U(1), U(2), U(3)}
NameOf(u) == <<"name", u[2]>>
PatientOf(a) == U(1)
DoctorOf(a) == U(2)

\* the value of a socket.data field that was never assigned
Undefined == <<"undefined">>

Roles == {"patient", "doctor", "admin"}
Statuses == {"scheduled", "completed"}
Dates == {"past", "future"}
Payloads == {"sdp1", "sdp2"}

\* Room names are free text.  Three shapes matter: an appointment id, a
\* meeting-room token, and the id of a socket (the name of its private room).
SidKey(c) == <<"sid", c>>
ApptKey(a) == <<"appt", a>>
TokenKey(a) == <<"tok", a>>
ApptRoomKeys == {ApptKey(a) : a \in Appts} \cup {TokenKey(a) : a \in Appts}
RoomKeys == {SidKey(c) : c \in SocketIds} \cup ApptRoomKeys

VARIABLES
  limit,        \* number of connections this run opens
  nextId,       \* number of socket ids allocated so far
  sockets,      \* io.sockets.sockets: the connected sockets
  role,         \* verified role attached to each connection
  data,         \* socket.data of each socket
  rooms,        \* io.sockets.adapter.rooms: room name -> set of sockets
  activeCalls,  \* call-activity registry: room key -> {isActive, startedBy}
  apptStatus,   \* appointments.status in the store
  apptDate,     \* appointments.appointment_date, relative to now
  outbox,       \* what the last handled event emitted, in order
  last,         \* the last handled event
  awaiting,     \* the start-call each connection has suspended at its read
  storage,      \* whether the appointment store answers reads
  joinedWhen,   \* the appointment store as it was when each connection joined
  tap,          \* whether this run records the transport
  log,          \* every message emitted so far, in the order of emission
  wire,         \* messages in flight to each connection, first in first out
  seen,         \* messages each connection has received, in order
  notifications,\* notifications table, in order of insertion
  reply,        \* the last HTTP response of the REST handlers
  payments,     \* payments table, in order of insertion (row id = position)
  inflight      \* payment requests suspended between their check and insert

vars == <<limit, nextId, sockets, role, data, rooms, activeCalls, apptStatus, apptDate, outbox, last,
          awaiting, storage, joinedWhen, tap, log, wire, seen,
          notifications, reply, payments, inflight>>

\* the state of the REST side
httpVars == <<notifications, reply, payments, inflight>>

NoData == [roomId |-> Undefined, userId |-> Undefined, userName |-> Undefined]
Inactive == [isActive |-> FALSE, startedBy |-> Undefined]

Emit(to, ev, body) == [to |-> to, ev |-> ev, body |-> body]
\* The record of a handled event: its name, the socket that emitted it, the
\* room key or target it names, and its argument.  For join-room the
\* argument is the user id sent and the members of the room before the
\* event; for start-call and end-call, the call state of the room before it.
\* a REST response: the handler that answered, its HTTP status, the
\* authenticated user and the subject of the request
Reply(op, status, user, key) == [op |-> op, status |-> status, user |-> user, key |-> key]
NoReply == Reply("none", 0, Undefined, Undefined)

\* a request slot with no payment request in progress
Idle == [op |-> "none"]

Event(ev, from, key, arg) == [ev |-> ev, from |-> from, key |-> key, arg |-> arg]

\* A broadcast that comes back to its sender.
SocketToAll(c, room) == IF room \in RoomKeys THEN rooms[room] ELSE {}

\* socket.to(room): the members of the room except the sender
SocketTo(c, room) == IF room \in RoomKeys THEN rooms[room] \ {c} ELSE {}
\* A room broadcast that reaches one member only.
IoToOne(room) ==
  IF room \in RoomKeys /\ rooms[room] # {}
    THEN {CHOOSE s \in rooms[room] : TRUE}
    ELSE {}

\* io.to(room): every member
IoTo(room) == IF room \in RoomKeys THEN rooms[room] ELSE {}

JoinedRooms(c) == {k \in RoomKeys : c \in rooms[k]}

\* A removal that takes the socket out of the room it joined last only.
LeaveLastOnly(r, c) ==
  [k \in RoomKeys |-> IF k = data[c].roomId THEN r[k] \ {c} ELSE r[k]]

\* The adapter's removal of a closing socket from every room (leaveAll):
\* a set difference per room, whether the socket is a member or not.
LeaveAll(r, c) == [k \in RoomKeys |-> r[k] \ {c}]

InitWith(n, t) ==
  /\ limit = n
  /\ tap = t
  /\ awaiting = [c \in SocketIds |-> Undefined]
  /\ storage = "up"
  /\ joinedWhen = [c \in SocketIds |-> Undefined]
  /\ log = <<>>
  /\ wire = [c \in SocketIds |-> <<>>]
  /\ seen = [c \in SocketIds |-> <<>>]
  /\ nextId = 0
  /\ sockets = {}
  /\ role = [c \in SocketIds |-> "none"]
  /\ data = [c \in SocketIds |-> NoData]
  /\ rooms = [k \in RoomKeys |-> {}]
  /\ activeCalls = [k \in RoomKeys |-> Inactive]
  /\ apptStatus = [a \in Appts |-> "scheduled"]
  /\ apptDate = [a \in Appts |-> "future"]
  /\ outbox = <<>>
  /\ last = Event("init", 0, Undefined, Undefined)
  /\ notifications = <<>>
  /\ reply = NoReply
  /\ payments = <<>>
  /\ inflight = [r \in Requests |-> Idle]

Init == InitWith(MaxSockets, FALSE)

InitRelay == InitWith(MaxSockets + 1, FALSE)

InitOrder == InitWith(MaxSockets, TRUE)

(* ---------------------------- transport -------------------------------- *)

\* The messages of a sequence of emits that are addressed to socket p.
For(p, emits) == SelectSeq(emits, LAMBDA e : p \in e.to)

\* A connection that hands over the newest message first.
TransportNewestFirst ==
  IF tap
    THEN /\ Len(log) + Len(outbox') <= MaxLog
         /\ log' = log \o outbox'
         /\ wire' = [p \in SocketIds |->
                       IF p \in sockets' THEN For(p, outbox') \o wire[p] ELSE <<>>]
    ELSE UNCHANGED <<log, wire>>

\* socket.emit / socket.to(..).emit / io.to(..).emit hand each message to the
\* connection of every addressee, in the order of the emit calls; a
\* connection carries its messages first in, first out, and the messages in
\* flight to a closed connection are lost.  A run that records the
\* transport ends when its log is full.
Transport ==
  IF tap
    THEN /\ Len(log) + Len(outbox') <= MaxLog
         /\ log' = log \o outbox'
         /\ wire' = [p \in SocketIds |->
                       IF p \in sockets' THEN wire[p] \o For(p, outbox') ELSE <<>>]
    ELSE UNCHANGED <<log, wire>>

(* --------------------------- connection -------------------------------- *)

\* io.on('connection'): a new socket with a fresh id, alone in its own room.
Connect(r) ==
  /\ nextId < limit
  /\ nextId' = nextId + 1
  /\ sockets' = sockets \cup {nextId'}
  /\ role' = [role EXCEPT ![nextId'] = r]
  /\ rooms' = [rooms EXCEPT ![SidKey(nextId')] = @ \cup {nextId'}]
  /\ outbox' = <<>>
  /\ last' = Event("connection", nextId', Undefined, r)
  /\ UNCHANGED <<limit, data, activeCalls, apptStatus, apptDate>>
  /\ UNCHANGED <<awaiting, storage, joinedWhen, tap, seen>>
  /\ Transport
  /\ UNCHANGED httpVars

(* ------------------- handlers of socketService.js ---------------------- *)

\* One entry of the room-users roster.
UserEntry(s) ==
  [socketId |-> s, userId |-> data[s].userId, userName |-> data[s].userName]

\* A join-room that forgets the user id it was sent.
StoreIdentityNoUserId(roomId, userId) ==
  [roomId |-> roomId, userId |-> Undefined, userName |-> NameOf(userId)]

\* socket.data after join-room
StoreIdentity(roomId, userId) ==
  [roomId |-> roomId, userId |-> userId, userName |-> NameOf(userId)]

\* socket.on('join-room', (roomId, userId, userName)).  The handler takes the
\* room name and the user identity as the client sends them; the display
\* name sent is the one that belongs to the user id sent.  A socket id can
\* be named as a room only once it exists (ids are not guessable).
JoinRoom(c, roomId, userId) ==
  /\ c \in sockets
  /\ roomId[1] = "sid" => roomId[2] <= nextId
  /\ roomId \in JoinedRooms(c) \/ Cardinality(JoinedRooms(c) \ {SidKey(c)}) < MaxJoined
  /\ rooms' = [rooms EXCEPT ![roomId] = @ \cup {c}]
  /\ data' = [data EXCEPT ![c] = StoreIdentity(roomId, userId)]
  /\ outbox' =
       << Emit(rooms[roomId] \ {c}, "user-joined",
               [userId |-> userId, userName |-> NameOf(userId), socketId |-> c]),
          Emit({c}, "room-users", {UserEntry(s) : s \in rooms[roomId] \ {c}}) >>
  /\ last' = Event("join-room", c, roomId, [userId |-> userId, before |-> rooms[roomId]])
  /\ joinedWhen' = [joinedWhen EXCEPT ![c] = apptStatus]
  /\ UNCHANGED <<limit, nextId, sockets, role, activeCalls, apptStatus, apptDate>>
  /\ UNCHANGED <<awaiting, storage, tap, seen>>
  /\ Transport
  /\ UNCHANGED httpVars

\* socket.on('offer' | 'answer'): socket.to(data.target).emit(...)
Relay(c, ev, target, payload) ==
  /\ c \in sockets
  /\ outbox' =
       << Emit(SocketTo(c, target), ev,
               [payload |-> payload, sender |-> c,
                senderId |-> data[c].userId, senderName |-> data[c].userName]) >>
  /\ last' = Event(ev, c, target, payload)
  /\ UNCHANGED <<limit, nextId, sockets, role, data, rooms, activeCalls, apptStatus, apptDate>>
  /\ UNCHANGED <<awaiting, storage, joinedWhen, tap, seen>>
  /\ Transport
  /\ UNCHANGED httpVars

Offer(c, target, payload) == Relay(c, "offer", target, payload)

Answer(c, target, payload) == Relay(c, "answer", target, payload)

\* socket.on('ice-candidate'): the relayed message names the sender socket only
IceCandidate(c, target, payload) ==
  /\ c \in sockets
  /\ outbox' =
       << Emit(SocketTo(c, target), "ice-candidate",
               [payload |-> payload, sender |-> c]) >>
  /\ last' = Event("ice-candidate", c, target, payload)
  /\ UNCHANGED <<limit, nextId, sockets, role, data, rooms, activeCalls, apptStatus, apptDate>>
  /\ UNCHANGED <<awaiting, storage, joinedWhen, tap, seen>>
  /\ Transport
  /\ UNCHANGED httpVars

\* socket.on('user-audio-status' | 'user-video-status')
StatusBroadcast(c, ev, flag) ==
  /\ c \in sockets
  /\ outbox' =
       << Emit(SocketTo(c, data[c].roomId), ev,
               [userId |-> data[c].userId, userName |-> data[c].userName,
                flag |-> flag]) >>
  /\ last' = Event(ev, c, data[c].roomId, flag)
  /\ UNCHANGED <<limit, nextId, sockets, role, data, rooms, activeCalls, apptStatus, apptDate>>
  /\ UNCHANGED <<awaiting, storage, joinedWhen, tap, seen>>
  /\ Transport
  /\ UNCHANGED httpVars

UserAudioStatus(c, isMuted) == StatusBroadcast(c, "user-audio-status", isMuted)

UserVideoStatus(c, isVideoOff) == StatusBroadcast(c, "user-video-status", isVideoOff)

\* socket.on('disconnect').  The adapter has removed the socket from every
\* room before the handler runs; the handler announces the departure to
\* the room recorded in socket.data.roomId only.  A start-call that the
\* connection had suspended at its read is abandoned, and what the
\* connection was about to receive is lost.
Disconnect(c) ==
  /\ c \in sockets
  /\ sockets' = sockets \ {c}
  /\ rooms' = LeaveAll(rooms, c)
  /\ outbox' =
       IF data[c].roomId # Undefined
         THEN << Emit(rooms[data[c].roomId] \ {c}, "user-left",
                      [userId |-> data[c].userId, userName |-> data[c].userName,
                       socketId |-> c]) >>
         ELSE <<>>
  /\ last' = Event("disconnect", c, data[c].roomId, Undefined)
  /\ data' = [data EXCEPT ![c] = NoData]
  /\ role' = [role EXCEPT ![c] = "none"]
  /\ awaiting' = [awaiting EXCEPT ![c] = Undefined]
  /\ joinedWhen' = [joinedWhen EXCEPT ![c] = Undefined]
  /\ seen' = [seen EXCEPT ![c] = <<>>]
  /\ UNCHANGED <<limit, nextId, activeCalls, apptStatus, apptDate, storage, tap>>
  /\ Transport
  /\ UNCHANGED httpVars

(* ------------ call control, modelled from the specification ----------- *)

\* Identity Resolver (4.1): a room key resolves to an appointment by its
\* meeting-room token first, then by its identifier; a key that matches
\* neither resolves to nothing (NotFound).
Resolves(key) == \E a \in Appts : key = TokenKey(a) \/ key = ApptKey(a)

Resolve(key) ==
  IF \E a \in Appts : key = TokenKey(a)
    THEN CHOOSE a \in Appts : key = TokenKey(a)
    ELSE CHOOSE a \in Appts : key = ApptKey(a)

\* Authorization Gate (4.2)
\* A gate that forgets the role check.
canStartAnyRole(a, userId, userRole) ==
  /\ userRole = "admin" \/ userId = DoctorOf(a)
  /\ apptStatus[a] # "completed"

\* A gate that lets any doctor start, assigned to the appointment or not.
canStartAnyDoctor(a, userId, userRole) ==
  /\ userRole \in {"doctor", "admin"}
  /\ apptStatus[a] # "completed"

canStart(a, userId, userRole) ==
  /\ userRole \in {"doctor", "admin"}
  /\ userRole = "admin" \/ userId = DoctorOf(a)
  /\ apptStatus[a] # "completed"

\* A gate that lets only doctors end a call.
canEndDoctorOnly(userRole) == userRole = "doctor"

canEnd(userRole) == userRole \in {"doctor", "admin"}

\* A registry that forgets who started the call once it is live.
setCallStateDropStarter(key, active, startedBy) ==
  [activeCalls EXCEPT ![key] =
     [isActive |-> active,
      startedBy |-> IF activeCalls[key].isActive THEN Undefined ELSE startedBy]]

\* Room Registry (4.3): setCallState
setCallState(key, active, startedBy) ==
  [activeCalls EXCEPT ![key] = [isActive |-> active, startedBy |-> startedBy]]

ErrorTo(c) == << Emit({c}, "error", Undefined) >>

\* Per-room serialization (5): a room is held from the moment a start-call
\* on it suspends at its appointment read until that start-call resumes.
Suspended(key) == \E s \in SocketIds : awaiting[s] = key

\* A start-call that does not ask whether the caller has joined.
StartAllowedUnjoined(c, key) ==
  /\ storage = "up"
  /\ Resolves(key)
  /\ canStart(Resolve(key), data[c].userId, role[c])

\* A start-call that trusts the appointment status it saw at join time.
StartAllowedCached(c, key) ==
  /\ data[c].roomId # Undefined
  /\ storage = "up"
  /\ Resolves(key)
  /\ joinedWhen[c][Resolve(key)] # "completed"
  /\ role[c] \in {"doctor", "admin"}
  /\ role[c] = "admin" \/ data[c].userId = DoctorOf(Resolve(key))

\* start-call is allowed to a joined connection whose fresh read of the
\* appointment succeeds and passes the gate (4.4, 7)
StartAllowed(c, key) ==
  /\ data[c].roomId # Undefined
  /\ storage = "up"
  /\ Resolves(key)
  /\ canStart(Resolve(key), data[c].userId, role[c])

\* start-call (4.4), from the answer of the appointment read onwards
StartHandled(c, key) ==
  /\ c \in sockets
  /\ IF StartAllowed(c, key)
       THEN /\ activeCalls' = setCallState(key, TRUE, data[c].userId)
            /\ outbox' =
                 << Emit(IoTo(key), "call-started",
                         [startedBy |-> data[c].userId,
                          startedByName |-> data[c].userName]),
                    Emit(IoTo(key), "room-users",
                         {UserEntry(s) : s \in IoTo(key)}) >>
       ELSE /\ activeCalls' = activeCalls
            /\ outbox' = ErrorTo(c)
  /\ last' = Event("start-call", c, key, activeCalls[key])
  /\ UNCHANGED <<limit, nextId, sockets, role, data, rooms, apptStatus, apptDate>>
  /\ UNCHANGED <<storage, joinedWhen, tap, seen>>
  /\ Transport
  /\ UNCHANGED httpVars

\* start-call (4.4) handled in one piece: the read answers at once
StartCall(c, key) ==
  /\ awaiting[c] = Undefined
  /\ ~Suspended(key)
  /\ StartHandled(c, key)
  /\ UNCHANGED awaiting

\* start-call (4.4, 5) up to its suspension point: the handler takes the
\* room and issues the appointment read
StartCallBegin(c, key) ==
  /\ c \in sockets
  /\ awaiting[c] = Undefined
  /\ ~Suspended(key)
  /\ awaiting' = [awaiting EXCEPT ![c] = key]
  /\ outbox' = <<>>
  /\ last' = Event("start-call-read", c, key, activeCalls[key])
  /\ UNCHANGED <<limit, nextId, sockets, role, data, rooms, activeCalls, apptStatus, apptDate>>
  /\ UNCHANGED <<storage, joinedWhen, tap, seen>>
  /\ Transport
  /\ UNCHANGED httpVars

\* the read answers (or fails) and the suspended start-call runs to its end
StartCallResume(c) ==
  /\ awaiting[c] # Undefined
  /\ StartHandled(c, awaiting[c])
  /\ awaiting' = [awaiting EXCEPT ![c] = Undefined]

\* end-call (4.4)
EndCall(c, key) ==
  /\ c \in sockets
  /\ ~Suspended(key)
  /\ IF canEnd(role[c])
       THEN /\ activeCalls' = setCallState(key, FALSE, Undefined)
            /\ outbox' =
                 << Emit(IoTo(key), "call-ended",
                         [endedBy |-> data[c].userId,
                          endedByName |-> data[c].userName]) >>
       ELSE /\ activeCalls' = activeCalls
            /\ outbox' = ErrorTo(c)
  /\ last' = Event("end-call", c, key, activeCalls[key])
  /\ UNCHANGED <<limit, nextId, sockets, role, data, rooms, apptStatus, apptDate>>
  /\ UNCHANGED <<awaiting, storage, joinedWhen, tap, seen>>
  /\ Transport
  /\ UNCHANGED httpVars

(* ------------------------- appointment store --------------------------- *)

\* String.prototype.toLowerCase, on the strings requests carry
Lower(s) ==
  CASE s = "Confirmed" -> "confirmed"
    [] s = "Completed" -> "completed"
    [] s = "GCash" -> "gcash"
    [] OTHER -> s

\* NotificationService.createNotification: one unread row is inserted.
createNotification(rows, user_id, appointment_id, type) ==
  Append(rows, [user_id |-> user_id, appointment_id |-> appointment_id,
                type |-> type, is_read |-> FALSE])

\* NotificationService.notifyAppointmentAccepted: the appointment is read
\* and its patient (appointments.user_id) gets an appointment_accepted row.
notifyAppointmentAccepted(rows, a) ==
  createNotification(rows, PatientOf(a), a, "appointment_accepted")

\* appointmentController.update: the fields sent replace the stored ones,
\* the store returns the row as it is after the update, and the patient is
\* notified when the status sent is 'confirmed' and the status of the
\* returned row is not.
UpdateAppointment(a, status, date) ==
  /\ apptStatus' = [apptStatus EXCEPT ![a] = status]
  /\ apptDate' = [apptDate EXCEPT ![a] = date]
  /\ LET appointment == [id |-> a, status |-> apptStatus'[a]] IN
       notifications' =
         IF Lower(status) = "confirmed" /\ Lower(appointment.status) # "confirmed"
           THEN notifyAppointmentAccepted(notifications, appointment.id)
           ELSE notifications
  /\ outbox' = <<>>
  /\ last' = Event("update", 0, ApptKey(a), status)
  /\ UNCHANGED <<limit, nextId, sockets, role, data, rooms, activeCalls>>
  /\ UNCHANGED <<awaiting, storage, joinedWhen, tap, seen>>
  /\ Transport
  /\ UNCHANGED <<reply, payments, inflight>>

\* The appointment store goes down or comes back.
SetStorage(s) ==
  /\ s # storage
  /\ storage' = s
  /\ outbox' = <<>>
  /\ last' = Event("storage", 0, Undefined, s)
  /\ UNCHANGED <<limit, nextId, sockets, role, data, rooms, activeCalls, apptStatus, apptDate>>
  /\ UNCHANGED <<awaiting, joinedWhen, tap, seen>>
  /\ Transport
  /\ UNCHANGED httpVars

\* The client of connection p receives the next message in flight to it.
Deliver(p) ==
  /\ p \in sockets
  /\ wire[p] # <<>>
  /\ seen' = [seen EXCEPT ![p] = Append(@, Head(wire[p]))]
  /\ wire' = [wire EXCEPT ![p] = Tail(@)]
  /\ UNCHANGED <<limit, nextId, sockets, role, data, rooms, activeCalls, apptStatus, apptDate>>
  /\ UNCHANGED <<outbox, last, awaiting, storage, joinedWhen, tap, log>>
  /\ UNCHANGED httpVars

(* ------------------------------ accounts ------------------------------- *)

\* the state of the signaling side, which no REST handler touches
socketVars == <<limit, nextId, sockets, role, data, rooms, activeCalls, apptStatus, apptDate,
                outbox, last, awaiting, storage, joinedWhen, tap, log, wire, seen>>

\* users.role of the three accounts: the patient of the appointment, its
\* doctor, and an administrator
RoleOfUser(u) ==
  CASE u = U(1) -> "user"
    [] u = U(2) -> "doctor"
    [] OTHER -> "admin"

\* a row of the users table
Account(u) == [id |-> u, email_address |-> <<"mail", u[2]>>,
               full_name |-> NameOf(u), role |-> RoleOfUser(u)]

\* generateToken: the signed payload carries id, email and full_name.
generateToken(user) ==
  [id |-> user.id, email |-> user.email_address, full_name |-> user.full_name]

\* authenticate: req.user is built from the verified payload.
authenticate(decoded) ==
  [id |-> decoded.id, email |-> decoded.email, full_name |-> decoded.full_name]

\* req.user.role: reading a property the object does not have gives undefined
ReqUserRole(user) == IF "role" \in DOMAIN user THEN user.role ELSE "undefined"

\* notificationController.createNotification: user_id defaults to the
\* requester; another user's id is refused unless req.user.role is 'admin'.
CreateNotification(u, user_id) ==
  LET user == authenticate(generateToken(Account(u)))
      targetUserId == IF user_id # Undefined THEN user_id ELSE user.id
  IN /\ Len(notifications) < MaxNotes
     /\ IF targetUserId # user.id /\ ReqUserRole(user) # "admin"
          THEN /\ reply' = Reply("createNotification", 403, u, targetUserId)
               /\ UNCHANGED notifications
          ELSE /\ notifications' = createNotification(notifications, targetUserId, Undefined, "info")
               /\ reply' = Reply("createNotification", 201, u, targetUserId)
     /\ UNCHANGED <<payments, inflight>>
     /\ UNCHANGED socketVars

(* ------------------------------ payments ------------------------------- *)

\* users.consultation_fee of the doctor
Fee == 500
\* a refund_amount that is NULL
NoRefund == 0
\* the id of no row
NoRow == 0

Methods == {"gcash", "GCash", "card"}
CpNumbers == {"09123456789", "12345"}
WebhookStatuses == {"success", "Completed", "failed", "cancelled", "processing"}
\* appointment ids a request may name: the stored one and an unknown one
ApptIds == Appts \cup {2}
PaymentIds == 1..(MaxPayments + 1)

\* the Philippine mobile number check: 11 digits starting with 09
ValidCp(cp) == cp = "09123456789"

\* ids of the payments rows of one appointment and patient
PaymentsOf(a, u) ==
  {i \in DOMAIN payments : payments[i].appointment_id = a /\ payments[i].patient_id = u}

\* .single(): the row when exactly one matches, no data otherwise
Single(ids) == IF Cardinality(ids) = 1 THEN CHOOSE i \in ids : TRUE ELSE NoRow

\* insert into payments: the table has no unique constraint on
\* (appointment_id, patient_id)
InsertPayment(a, u, status) ==
  Append(payments, [appointment_id |-> a, patient_id |-> u, amount |-> Fee,
                    payment_status |-> status, refund_amount |-> NoRefund])

\* paymentController.initializePayment up to its read of the payments
\* table: method, appointment and ownership are validated, and an existing
\* payment ends the request.
InitializePaymentBegin(r, u, a, method, cp) ==
  /\ inflight[r].op = "none"
  /\ LET existingPayment == Single(PaymentsOf(a, u)) IN
       IF Lower(method) \notin {"gcash", "paymaya"}
         THEN reply' = Reply("initializePayment", 400, u, a) /\ UNCHANGED inflight
       ELSE IF a \notin Appts
         THEN reply' = Reply("initializePayment", 404, u, a) /\ UNCHANGED inflight
       ELSE IF PatientOf(a) # u
         THEN reply' = Reply("initializePayment", 403, u, a) /\ UNCHANGED inflight
       ELSE IF existingPayment # NoRow
         THEN /\ reply' = Reply("initializePayment",
                               IF payments[existingPayment].payment_status = "pending"
                                 THEN 200 ELSE 400, u, a)
              /\ UNCHANGED inflight
       ELSE /\ inflight' = [inflight EXCEPT ![r] =
                             [op |-> "initializePayment", user |-> u,
                              appointment_id |-> a, cp |-> cp]]
            /\ UNCHANGED reply
  /\ UNCHANGED <<notifications, payments>>
  /\ UNCHANGED socketVars

\* paymentController.initializePayment after that read: the mobile number
\* is validated and PaymentService.initializePayment inserts a pending row.
InitializePaymentCommit(r) ==
  /\ inflight[r].op = "initializePayment"
  /\ Len(payments) < MaxPayments
  /\ IF ValidCp(inflight[r].cp)
       THEN /\ payments' = InsertPayment(inflight[r].appointment_id, inflight[r].user, "pending")
            /\ reply' = Reply("initializePayment", 201, inflight[r].user, inflight[r].appointment_id)
       ELSE /\ reply' = Reply("initializePayment", 400, inflight[r].user, inflight[r].appointment_id)
            /\ UNCHANGED payments
  /\ inflight' = [inflight EXCEPT ![r] = Idle]
  /\ UNCHANGED notifications
  /\ UNCHANGED socketVars

\* paymentController.createPaymentFromPatient up to its read of the
\* payments table.
CreatePaymentFromPatientBegin(r, u, a, method, currency) ==
  /\ inflight[r].op = "none"
  /\ IF Lower(method) \notin {"gcash", "paymaya"} \/ currency # "PHP"
       THEN reply' = Reply("createPaymentFromPatient", 400, u, a) /\ UNCHANGED inflight
     ELSE IF a \notin Appts
       THEN reply' = Reply("createPaymentFromPatient", 404, u, a) /\ UNCHANGED inflight
     ELSE IF PatientOf(a) # u
       THEN reply' = Reply("createPaymentFromPatient", 403, u, a) /\ UNCHANGED inflight
     ELSE IF Single(PaymentsOf(a, u)) # NoRow
       THEN reply' = Reply("createPaymentFromPatient", 400, u, a) /\ UNCHANGED inflight
     ELSE /\ inflight' = [inflight EXCEPT ![r] =
                           [op |-> "createPaymentFromPatient", user |-> u,
                            appointment_id |-> a]]
          /\ UNCHANGED reply
  /\ UNCHANGED <<notifications, payments>>
  /\ UNCHANGED socketVars

\* paymentController.createPaymentFromPatient after that read: a completed
\* row is inserted.
CreatePaymentFromPatientCommit(r) ==
  /\ inflight[r].op = "createPaymentFromPatient"
  /\ Len(payments) < MaxPayments
  /\ payments' = InsertPayment(inflight[r].appointment_id, inflight[r].user, "completed")
  /\ reply' = Reply("createPaymentFromPatient", 201, inflight[r].user, inflight[r].appointment_id)
  /\ inflight' = [inflight EXCEPT ![r] = Idle]
  /\ UNCHANGED notifications
  /\ UNCHANGED socketVars

\* PaymentService.checkPaymentWithGateway: no gateway is integrated.
checkPaymentWithGateway(payment) == FALSE

\* PaymentService.verifyPayment: a verified pending payment is completed.
verifyPayment(payment) ==
  IF checkPaymentWithGateway(payment) /\ payment.payment_status = "pending"
    THEN [payment EXCEPT !.payment_status = "completed"]
    ELSE payment

\* PaymentService.processPaymentWebhook: the status the gateway sends
\* replaces the stored one.
processPaymentWebhook(payment, status) ==
  IF Lower(status) \in {"completed", "success"}
    THEN [payment EXCEPT !.payment_status = "completed"]
    ELSE [payment EXCEPT !.payment_status = Lower(status)]

\* PaymentService.cancelPayment: a completed payment is refunded in full,
\* any other is cancelled.
cancelPayment(payment) ==
  IF payment.payment_status = "completed"
    THEN [payment EXCEPT !.payment_status = "refunded", !.refund_amount = payment.amount]
    ELSE [payment EXCEPT !.payment_status = "cancelled"]

\* paymentController.verifyPayment: the requester's own payment is verified.
VerifyPayment(u, p) ==
  /\ IF p \in DOMAIN payments /\ payments[p].patient_id = u
       THEN /\ payments' = [payments EXCEPT ![p] = verifyPayment(@)]
            /\ reply' = Reply("verifyPayment", 200, u, p)
       ELSE /\ reply' = Reply("verifyPayment", 404, u, p)
            /\ UNCHANGED payments
  /\ UNCHANGED <<notifications, inflight>>
  /\ UNCHANGED socketVars

\* paymentController.processPaymentWebhook: no authentication; the payment
\* is found by the transaction id the gateway names.
ProcessPaymentWebhook(p, status) ==
  /\ IF p \in DOMAIN payments
       THEN /\ payments' = [payments EXCEPT ![p] = processPaymentWebhook(@, status)]
            /\ reply' = Reply("processPaymentWebhook", 200, Undefined, p)
       ELSE /\ reply' = Reply("processPaymentWebhook", 500, Undefined, p)
            /\ UNCHANGED payments
  /\ UNCHANGED <<notifications, inflight>>
  /\ UNCHANGED socketVars

\* paymentController.cancelPayment: the requester's own payment is cancelled.
CancelPayment(u, p) ==
  /\ IF p \in DOMAIN payments /\ payments[p].patient_id = u
       THEN /\ payments' = [payments EXCEPT ![p] = cancelPayment(@)]
            /\ reply' = Reply("cancelPayment", 200, u, p)
       ELSE /\ reply' = Reply("cancelPayment", 404, u, p)
            /\ UNCHANGED payments
  /\ UNCHANGED <<notifications, inflight>>
  /\ UNCHANGED socketVars

(* --------------------------- specifications --------------------------- *)

\* Call control: connections, membership, start / end of calls and the
\* appointment store, every role and user id, the room named by the
\* appointment id.
CallKeys == {ApptKey(a) : a \in Appts}

Next ==
  \/ \E r \in Roles : Connect(r)
  \/ \E c \in SocketIds, k \in CallKeys, u \in UserIds : JoinRoom(c, k, u)
  \/ \E c \in SocketIds : Disconnect(c)
  \/ \E c \in SocketIds, k \in CallKeys : StartCall(c, k)
  \/ \E c \in SocketIds, k \in CallKeys : EndCall(c, k)
  \/ \E a \in Appts, st \in Statuses, d \in Dates : UpdateAppointment(a, st, d)

Spec == Init /\ [][Next]_vars

\* Call control over both names of the appointment's room (its id and its
\* meeting-room token), for the appointment's patient and doctor.
NextRooms ==
  \/ \E r \in {"patient", "doctor"} : Connect(r)
  \/ \E c \in SocketIds, k \in ApptRoomKeys, u \in {U(1), U(2)} : JoinRoom(c, k, u)
  \/ \E c \in SocketIds : Disconnect(c)
  \/ \E c \in SocketIds, k \in ApptRoomKeys : StartCall(c, k)
  \/ \E c \in SocketIds, k \in ApptRoomKeys : EndCall(c, k)
  \/ \E a \in Appts, st \in Statuses : UpdateAppointment(a, st, "future")

SpecRooms == Init /\ [][NextRooms]_vars

\* The user id a connection claims in the relay specification.
UserOf(c) == U(((c - 1) % 3) + 1)

\* The names a client of the relay specification uses for a room or a
\* target: the appointment id and the socket ids.
RelayKeys == {SidKey(c) : c \in SocketIds} \cup {ApptKey(a) : a \in Appts}

\* Relay: connections, membership under any room name (a socket id
\* included), the point-to-point relays and the status broadcasts.
NextRelay ==
  \/ Connect("patient")
  \/ \E c \in SocketIds : \E k \in RelayKeys \ {SidKey(c)} : JoinRoom(c, k, UserOf(c))
  \/ \E c \in SocketIds : Disconnect(c)
  \/ \E c \in SocketIds, t \in RelayKeys, p \in Payloads : Offer(c, t, p)
  \/ \E c \in SocketIds, t \in RelayKeys, p \in Payloads : Answer(c, t, p)
  \/ \E c \in SocketIds, t \in RelayKeys, p \in Payloads : IceCandidate(c, t, p)
  \/ \E c \in SocketIds, f \in BOOLEAN : UserAudioStatus(c, f)
  \/ \E c \in SocketIds, f \in BOOLEAN : UserVideoStatus(c, f)

SpecRelay == InitRelay /\ [][NextRelay]_vars

\* Suspension: start-call in two steps around its appointment read, with the
\* store going down and coming back, for doctors and patients of the
\* appointment.
NextAsync ==
  \/ \E r \in {"patient", "doctor"} : Connect(r)
  \/ \E c \in SocketIds, k \in CallKeys, u \in {U(1), U(2)} : JoinRoom(c, k, u)
  \/ \E c \in SocketIds : Disconnect(c)
  \/ \E c \in SocketIds, k \in CallKeys : StartCallBegin(c, k)
  \/ \E c \in SocketIds : StartCallResume(c)
  \/ \E c \in SocketIds, k \in CallKeys : EndCall(c, k)
  \/ \E a \in Appts, st \in Statuses : UpdateAppointment(a, st, "future")
  \/ \E s \in {"up", "down"} : SetStorage(s)

SpecAsync == Init /\ [][NextAsync]_vars

\* Order: the events of one room handled in one piece, with every message
\* followed from its emit to its receipt by the client; the connections
\* are admins, who may start and end calls.
NextOrder ==
  \/ Connect("admin")
  \/ \E c \in SocketIds, k \in CallKeys : JoinRoom(c, k, UserOf(c))
  \/ \E c \in SocketIds : Disconnect(c)
  \/ \E c \in SocketIds, k \in CallKeys : StartCall(c, k)
  \/ \E c \in SocketIds, k \in CallKeys : EndCall(c, k)
  \/ \E p \in SocketIds : Deliver(p)

SpecOrder == InitOrder /\ [][NextOrder]_vars

\* REST, appointments and notifications: appointment updates in every
\* status and letter case, and notification requests by every account for
\* itself (no user_id) or for a named user.
HttpStatuses == {"scheduled", "confirmed", "Confirmed", "completed"}

NextHttp ==
  \/ \E a \in Appts, st \in HttpStatuses, d \in Dates : UpdateAppointment(a, st, d)
  \/ \E u \in UserIds, t \in UserIds \cup {Undefined} : CreateNotification(u, t)

SpecHttp == Init /\ [][NextHttp]_vars

\* REST, payments: requests of the patient and of the doctor, each payment
\* creation in two steps around its read of the payments table, and the
\* gateway's webhooks.
NextPayments ==
  \/ \E r \in Requests, u \in {U(1), U(2)}, a \in ApptIds, m \in Methods, cp \in CpNumbers :
       InitializePaymentBegin(r, u, a, m, cp)
  \/ \E r \in Requests : InitializePaymentCommit(r)
  \/ \E r \in Requests, u \in {U(1), U(2)}, a \in ApptIds, m \in Methods, cur \in {"PHP", "USD"} :
       CreatePaymentFromPatientBegin(r, u, a, m, cur)
  \/ \E r \in Requests : CreatePaymentFromPatientCommit(r)
  \/ \E u \in {U(1), U(2)}, p \in PaymentIds : VerifyPayment(u, p)
  \/ \E p \in PaymentIds, st \in WebhookStatuses : ProcessPaymentWebhook(p, st)
  \/ \E u \in {U(1), U(2)}, p \in PaymentIds : CancelPayment(u, p)

SpecPayments == Init /\ [][NextPayments]_vars

(* ------------------------------ claims --------------------------------- *)

\* The events whose handler ran last, and its caller
LastIs(ev) == last.ev = ev
Caller == last.from

\* C1: in every reachable state and for every room, startedBy is set if and
\* only if the room's call is active.
C1_StartedByIffActive ==
  \A k \in RoomKeys :
    (activeCalls[k].startedBy # Undefined) <=> activeCalls[k].isActive

\* A call that was started and then ended by another connection, and one
\* that is live after its starter is gone.
C1_Witness ==
  \E k \in RoomKeys :
    /\ activeCalls[k].isActive
    /\ activeCalls[k].startedBy \in UserIds
    /\ LastIs("disconnect")
    /\ rooms[k] = {}

\* C2: a start-call from a connection whose role is patient yields an error
\* to that caller alone and leaves the call state of the room as it was; no
\* call-started is emitted.
C2_PatientStartForbidden ==
  (LastIs("start-call") /\ role[Caller] = "patient") =>
    /\ outbox = ErrorTo(Caller)
    /\ activeCalls[last.key] = last.arg

\* A patient who joined the room, naming the doctor's user id, asks to start.
C2_Witness ==
  /\ LastIs("start-call")
  /\ role[Caller] = "patient"
  /\ Caller \in rooms[last.key]
  /\ data[Caller].userId = DoctorOf(Resolve(last.key))
  /\ apptStatus[Resolve(last.key)] # "completed"
  /\ last.arg = Inactive
  /\ activeCalls[last.key] = Inactive
  /\ outbox = ErrorTo(Caller)

\* C3 (as claimed): a join-room whose key resolves to a completed
\* appointment yields an error to the requester, adds nobody to the room
\* and notifies nobody else.
C3_CompletedJoinRejected ==
  (/\ LastIs("join-room")
   /\ Resolves(last.key)
   /\ apptStatus[Resolve(last.key)] = "completed") =>
    /\ outbox = ErrorTo(Caller)
    /\ rooms[last.key] = last.arg.before

\* The step just taken is the disconnect of socket d.
DisconnectStep(d) ==
  /\ last'.ev = "disconnect"
  /\ last'.from = d
  /\ d \in sockets
  /\ d \notin sockets'

\* Socket p is sent event ev about socket d by the step just taken.
Receives(p, ev) == \E i \in DOMAIN outbox' : outbox'[i].ev = ev /\ p \in outbox'[i].to

ReceivesUserLeft(p, d) ==
  \E i \in DOMAIN outbox' :
    /\ outbox'[i].ev = "user-left"
    /\ p \in outbox'[i].to
    /\ outbox'[i].body.socketId = d

\* C4 (as claimed): a disconnect never changes a room's call state; when the
\* doctor who started the live call of a room disconnects, every participant
\* that remains in that room receives user-left for the doctor and none
\* receives call-ended.
C4_DisconnectKeepsCall ==
  [][\A d \in SocketIds :
       DisconnectStep(d) =>
         /\ activeCalls' = activeCalls
         /\ \A k \in ApptRoomKeys :
              (/\ d \in rooms[k]
               /\ activeCalls[k].isActive
               /\ activeCalls[k].startedBy = data[d].userId) =>
                \A p \in rooms'[k] :
                  ReceivesUserLeft(p, d) /\ ~Receives(p, "call-ended")]_vars

RelayEvents == {"offer", "answer", "ice-candidate"}

\* C5 (as claimed): an offer, answer or ice-candidate of connection X whose
\* target is the connected socket Y is delivered to Y and to nobody else,
\* with the payload as sent and X as the sender.
C5_RelayReachesTargetOnly ==
  \A y \in sockets :
    (/\ last.ev \in RelayEvents
     /\ y # Caller
     /\ last.key = SidKey(y)) =>
      /\ Len(outbox) = 1
      /\ outbox[1].to = {y}
      /\ outbox[1].ev = last.ev
      /\ outbox[1].body.payload = last.arg
      /\ outbox[1].body.sender = Caller

\* The step just taken is a join-room of socket c.
JoinStep(c) ==
  /\ last'.ev = "join-room"
  /\ last'.from = c
  /\ data'[c].roomId = last'.key
  /\ c \in rooms'[last'.key]
  /\ last'.arg.before = rooms[last'.key]

\* C6 (as claimed): membership follows the joins and the disconnects.  A
\* join adds the joiner to the room named and to no other, is announced as
\* user-joined to the members present and answered with the roster of the
\* other members; a disconnect removes the leaver from its rooms and is
\* announced as user-left to exactly the members that remain in them.
C6_MembershipRoundTrip ==
  [][\A c \in SocketIds :
       /\ JoinStep(c) =>
            /\ rooms' = [rooms EXCEPT ![last'.key] = @ \cup {c}]
            /\ outbox'[1] =
                 Emit(rooms[last'.key] \ {c}, "user-joined",
                      [userId |-> last'.arg.userId,
                       userName |-> NameOf(last'.arg.userId), socketId |-> c])
            /\ outbox'[2] =
                 Emit({c}, "room-users",
                      {UserEntry(s) : s \in rooms'[last'.key] \ {c}})
       /\ DisconnectStep(c) =>
            /\ rooms' = [k \in RoomKeys |-> rooms[k] \ {c}]
            /\ \A k \in ApptRoomKeys :
                 c \in rooms[k] =>
                   \A p \in sockets' : p \in rooms'[k] => ReceivesUserLeft(p, c)
            /\ \A p \in sockets' :
                 ReceivesUserLeft(p, c) =>
                   \E k \in ApptRoomKeys : c \in rooms[k] /\ p \in rooms'[k]]_vars

\* C7: a start-call by the doctor of the appointment on a room whose live
\* call that same doctor started leaves the room active with the same
\* startedBy.
C7_RestartKeepsStarter ==
  (/\ LastIs("start-call")
   /\ last.arg.isActive
   /\ role[Caller] = "doctor"
   /\ data[Caller].userId = DoctorOf(Resolve(last.key))
   /\ last.arg.startedBy = data[Caller].userId) =>
    /\ activeCalls[last.key].isActive
    /\ activeCalls[last.key].startedBy = last.arg.startedBy

\* The doctor starts the call a second time and it is broadcast again.
C7_Witness ==
  /\ LastIs("start-call")
  /\ last.arg.isActive
  /\ role[Caller] = "doctor"
  /\ data[Caller].userId = DoctorOf(Resolve(last.key))
  /\ last.arg.startedBy = data[Caller].userId
  /\ Len(outbox) = 2
  /\ outbox[1].ev = "call-started"
  /\ Caller \in outbox[1].to
  /\ activeCalls[last.key] = [isActive |-> TRUE, startedBy |-> DoctorOf(Resolve(last.key))]

\* C8 (as claimed): a join-room is accepted (the joiner becomes a member and
\* is sent no error) if and only if the appointment is not completed and the
\* user id is the appointment's patient or doctor or the role is doctor or
\* admin.
C8_JoinAcceptedIffAllowed ==
  (LastIs("join-room") /\ Resolves(last.key)) =>
    LET a == Resolve(last.key)
        u == last.arg.userId
        allowed ==
          /\ apptStatus[a] # "completed"
          /\ \/ u = PatientOf(a)
             \/ u = DoctorOf(a)
             \/ role[Caller] \in {"doctor", "admin"}
        accepted == Caller \in rooms[last.key] /\ outbox # ErrorTo(Caller)
    IN  accepted <=> allowed

\* C9: a start-call from a joined connection makes the room active, with the
\* caller as starter, if and only if the role is doctor or admin, and the
\* role is admin or the user id is the appointment's doctor, and the
\* appointment is not completed; otherwise the caller gets an error and the
\* call state stays as it was.  The appointment's date plays no part.
C9_StartIffAuthorized ==
  (/\ LastIs("start-call")
   /\ Resolves(last.key)
   /\ data[Caller].roomId # Undefined) =>
    LET a == Resolve(last.key)
        u == data[Caller].userId
        allowed ==
          /\ role[Caller] \in {"doctor", "admin"}
          /\ role[Caller] = "admin" \/ u = DoctorOf(a)
          /\ apptStatus[a] # "completed"
    IN  IF allowed
          THEN /\ activeCalls[last.key] = [isActive |-> TRUE, startedBy |-> u]
               /\ Len(outbox) = 2
               /\ outbox[1].ev = "call-started"
               /\ outbox[1].to = rooms[last.key]
          ELSE /\ activeCalls[last.key] = last.arg
               /\ outbox = ErrorTo(Caller)

\* A doctor who is not the appointment's doctor has joined the room and is
\* refused the start of a call on a past-dated appointment that the
\* appointment's doctor, also in the room, could start.
C9_Witness ==
  /\ LastIs("start-call")
  /\ role[Caller] = "doctor"
  /\ Caller \in rooms[last.key]
  /\ data[Caller].userId \notin {DoctorOf(Resolve(last.key)), PatientOf(Resolve(last.key))}
  /\ apptStatus[Resolve(last.key)] # "completed"
  /\ apptDate[Resolve(last.key)] = "past"
  /\ outbox = ErrorTo(Caller)
  /\ activeCalls[last.key] = Inactive
  /\ \E d \in rooms[last.key] :
       role[d] = "doctor" /\ data[d].userId = DoctorOf(Resolve(last.key))

\* C10: an end-call from a doctor or an admin, the starter of the call or
\* not, leaves the room inactive with no startedBy and sends call-ended to
\* every member of the room; an end-call from a patient sends an error to
\* the caller alone and leaves the call state as it was.
C10_EndCallByRole ==
  LastIs("end-call") =>
    IF role[Caller] \in {"doctor", "admin"}
      THEN /\ activeCalls[last.key] = Inactive
           /\ Len(outbox) = 1
           /\ outbox[1].ev = "call-ended"
           /\ outbox[1].to = rooms[last.key]
      ELSE /\ activeCalls[last.key] = last.arg
           /\ outbox = ErrorTo(Caller)

\* An admin who did not start the live call ends it, and the doctor who
\* started it is told.
C10_Witness ==
  /\ LastIs("end-call")
  /\ role[Caller] = "admin"
  /\ last.arg.isActive
  /\ last.arg.startedBy # data[Caller].userId
  /\ activeCalls[last.key] = Inactive
  /\ Len(outbox) = 1
  /\ outbox[1].ev = "call-ended"
  /\ \E d \in outbox[1].to : d # Caller /\ data[d].userId = last.arg.startedBy

\* The last event changed the membership or the call state of room k.
Mutated(k) ==
  /\ last.key = k
  /\ \/ LastIs("join-room") /\ rooms[k] # last.arg.before
     \/ last.ev \in {"start-call", "end-call"} /\ activeCalls[k] # last.arg

C11_CallStateSerialized ==
  \A s \in SocketIds :
    (awaiting[s] # Undefined /\ last.ev \in {"start-call", "end-call"}) =>
      ~Mutated(awaiting[s])

\* C13: a start-call on a room whose appointment is completed when the
\* start-call is handled is denied, whatever the status was when the caller
\* joined: the caller gets an error and the room's call state stays as it
\* was, so an inactive room stays inactive.
C13_CompletedNeverStarts ==
  (/\ LastIs("start-call")
   /\ Resolves(last.key)
   /\ apptStatus[Resolve(last.key)] = "completed") =>
    /\ outbox = ErrorTo(Caller)
    /\ activeCalls[last.key] = last.arg

\* The appointment's doctor joined while the appointment was scheduled, the
\* appointment was completed since, and the start-call is denied.
C13_Witness ==
  /\ LastIs("start-call")
  /\ role[Caller] = "doctor"
  /\ data[Caller].userId = DoctorOf(Resolve(last.key))
  /\ data[Caller].roomId = last.key
  /\ joinedWhen[Caller] # Undefined
  /\ joinedWhen[Caller][Resolve(last.key)] = "scheduled"
  /\ apptStatus[Resolve(last.key)] = "completed"
  /\ last.arg = Inactive
  /\ activeCalls[last.key] = Inactive
  /\ outbox = ErrorTo(Caller)

\* C14 (as claimed): a join-room or a start-call handled while the
\* appointment store is unavailable sends an error to the caller alone and
\* leaves the membership and the call state of the room as they were.
C14_FailedReadMutatesNothing ==
  (last.ev \in {"join-room", "start-call"} /\ storage = "down") =>
    /\ outbox = ErrorTo(Caller)
    /\ LastIs("start-call") => activeCalls[last.key] = last.arg
    /\ LastIs("join-room") => rooms[last.key] = last.arg.before

\* The part of C14 that start-call keeps.
C14_StartReadFailure ==
  (LastIs("start-call") /\ storage = "down") =>
    /\ outbox = ErrorTo(Caller)
    /\ activeCalls[last.key] = last.arg

\* The notifications of the join, start and end events of a room
OrderedEvents == {"user-joined", "call-started", "call-ended"}

Notifications(emits) == SelectSeq(emits, LAMBDA e : e.ev \in OrderedEvents)

\* C12: the user-joined, call-started and call-ended notifications of a room
\* go to every member present when the event is handled, and every
\* connection receives the ones addressed to it in the order in which the
\* server handled the events.
C12_RoomEventsInServerOrder ==
  /\ LastIs("join-room") =>
       /\ outbox[1].ev = "user-joined"
       /\ outbox[1].to = last.arg.before \ {Caller}
  /\ (last.ev \in {"start-call", "end-call"} /\ outbox # ErrorTo(Caller)) =>
       /\ outbox[1].ev \in {"call-started", "call-ended"}
       /\ outbox[1].to = rooms[last.key]
  /\ tap =>
       \A p \in sockets :
         Notifications(seen[p] \o wire[p]) = Notifications(For(p, log))

\* Two members present throughout have both received the call-started
\* and then the call-ended of their room, the first of them after the
\* user-joined of the second, with a later start already handled.
C12_Witness ==
  /\ tap
  /\ \E p, q \in sockets :
       /\ p # q
       /\ Len(Notifications(seen[p])) = 3
       /\ Notifications(seen[p])[1].ev = "user-joined"
       /\ Notifications(seen[p])[1].body.socketId = q
       /\ Notifications(seen[p])[2].ev = "call-started"
       /\ Notifications(seen[p])[3].ev = "call-ended"
       /\ Len(Notifications(seen[q])) = 2
       /\ Notifications(seen[q])[1] = Notifications(seen[p])[2]
       /\ Notifications(seen[q])[2] = Notifications(seen[p])[3]

\* C15 (as claimed): a join-room whose room key resolves to no appointment,
\* or that the gate denies (the appointment is completed, or the user is
\* neither its patient nor its doctor and the role is not doctor or admin),
\* sends an error to the requesting connection alone and changes no room
\* state; the connection stays open.
C15_DeniedJoinChangesNothing ==
  LastIs("join-room") =>
    LET u == last.arg.userId
        allowed ==
          /\ Resolves(last.key)
          /\ apptStatus[Resolve(last.key)] # "completed"
          /\ \/ u = PatientOf(Resolve(last.key))
             \/ u = DoctorOf(Resolve(last.key))
             \/ role[Caller] \in {"doctor", "admin"}
    IN  ~allowed =>
          /\ outbox = ErrorTo(Caller)
          /\ rooms[last.key] = last.arg.before
          /\ Caller \in sockets

\* C16 (as claimed): on a join-room the joiner alone is sent call-state with
\* the room's isActive and startedBy; user-joined goes to the rest of the
\* room and room-users to the joiner if the call is active, and neither is
\* sent if it is not.
C16_JoinAnnouncesCallState ==
  LastIs("join-room") =>
    /\ \E i \in DOMAIN outbox :
         /\ outbox[i].ev = "call-state"
         /\ outbox[i].to = {Caller}
         /\ outbox[i].body = activeCalls[last.key]
    /\ \A i \in DOMAIN outbox :
         outbox[i].ev \in {"user-joined", "room-users"} =>
           activeCalls[last.key].isActive
    /\ activeCalls[last.key].isActive =>
         /\ \E i \in DOMAIN outbox :
              outbox[i].ev = "user-joined" /\ outbox[i].to = last.arg.before \ {Caller}
         /\ \E i \in DOMAIN outbox :
              outbox[i].ev = "room-users" /\ outbox[i].to = {Caller}

\* The parts of C16 that the join-room handler keeps: user-joined to the
\* rest of the room and the roster of the others to the joiner.
C16_JoinAnnouncesMembers ==
  LastIs("join-room") =>
    /\ outbox[1].ev = "user-joined" /\ outbox[1].to = last.arg.before \ {Caller}
    /\ outbox[2].ev = "room-users" /\ outbox[2].to = {Caller}
    /\ outbox[2].body = {UserEntry(s) : s \in rooms[last.key] \ {Caller}}

\* C17: a start-call from a connection that has not joined a room (its
\* roomId is unset) is rejected, whatever its role: the caller gets an
\* error, no call-started is sent and the call state stays as it was.
C17_UnjoinedStartRejected ==
  (LastIs("start-call") /\ data[Caller].roomId = Undefined) =>
    /\ outbox = ErrorTo(Caller)
    /\ activeCalls[last.key] = last.arg

\* An admin that never joined asks to start the call of a room that has a
\* member and a startable appointment.
C17_Witness ==
  /\ LastIs("start-call")
  /\ role[Caller] = "admin"
  /\ data[Caller].roomId = Undefined
  /\ Caller \notin rooms[last.key]
  /\ rooms[last.key] # {}
  /\ apptStatus[Resolve(last.key)] # "completed"
  /\ last.arg = Inactive
  /\ activeCalls[last.key] = Inactive
  /\ outbox = ErrorTo(Caller)

\* The room-users message of a start-call lists its own addressee; the
\* roster of a join-room does not.
StartRoster(p, m) ==
  m.ev = "room-users" /\ \E e \in m.body : e.socketId = p

C19_GoneTargetDropped ==
  \A y \in 1..nextId :
    (/\ last.ev \in RelayEvents
     /\ last.key = SidKey(y)
     /\ y \notin sockets) =>
      \A i \in DOMAIN outbox : outbox[i].to = {}

StatusEvents == {"user-audio-status", "user-video-status"}

\* C20: a user-audio-status or user-video-status goes, with the flag as
\* sent, to every other member of the sender's room (the room of its last
\* join-room) and to nobody else, never to the sender, and changes no
\* membership, identity or call state.
C20_StatusToRestOfRoom ==
  [][last'.ev \in StatusEvents =>
       /\ Len(outbox') = 1
       /\ outbox'[1].ev = last'.ev
       /\ outbox'[1].body.flag = last'.arg
       /\ outbox'[1].to =
            (IF data[last'.from].roomId \in RoomKeys
               THEN rooms[data[last'.from].roomId] \ {last'.from}
               ELSE {})
       /\ UNCHANGED <<sockets, role, data, rooms, activeCalls>>]_vars

\* A status of a connection that shares its room with a second one, while a
\* third is connected outside that room, reaches the second one only.
C20_Witness ==
  /\ last.ev \in StatusEvents
  /\ data[Caller].roomId \in ApptRoomKeys
  /\ \E p \in sockets \ {Caller} :
       /\ outbox[1].to = {p}
       /\ rooms[data[Caller].roomId] = {Caller, p}
  /\ \E o \in sockets : o \notin rooms[data[Caller].roomId]

C22_ActiveRoomOutlivesMembers ==
  (/\ LastIs("join-room")
   /\ last.arg.before = {}
   /\ activeCalls[last.key].isActive) =>
    \E i \in DOMAIN outbox :
      /\ outbox[i].ev = "call-state"
      /\ outbox[i].to = {Caller}
      /\ outbox[i].body = activeCalls[last.key]

\* The part of C22 that the registry keeps: a disconnect leaves the call
\* state of every room as it was, and a room that is not active has no
\* starter left to keep.
C22_CallStateOutlivesMembers ==
  [][last'.ev = "disconnect" => activeCalls' = activeCalls]_vars

\* C23 (as claimed): the meeting-room token and the identifier of one
\* appointment name one room, with one membership and one call state.
C23_OneRoomPerAppointment ==
  \A a \in Appts :
    /\ rooms[TokenKey(a)] = rooms[ApptKey(a)]
    /\ activeCalls[TokenKey(a)] = activeCalls[ApptKey(a)]

\* C24 (as claimed): a live connection is a member of at most one room
\* besides the one its own id names.
C24_AtMostOneRoom ==
  \A c \in sockets : Cardinality(JoinedRooms(c) \ {SidKey(c)}) <= 1

\* C27 (as claimed): an offer, answer or ice-candidate is delivered to at
\* most one connection, whatever its target.
C27_RelayToAtMostOne ==
  last.ev \in RelayEvents =>
    \A i \in DOMAIN outbox : Cardinality(outbox[i].to) <= 1

\* C25: an appointment update that sets status to confirmed on an
\* appointment that was not already confirmed creates a notification of
\* type appointment_accepted for the appointment's patient.
C25_AcceptanceNotifiesPatient ==
  [][\A a \in Appts :
       ( /\ last'.ev = "update"
         /\ last'.key = ApptKey(a)
         /\ Lower(last'.arg) = "confirmed"
         /\ Lower(apptStatus[a]) # "confirmed" )
       => \E i \in DOMAIN notifications' :
            /\ i > Len(notifications)
            /\ notifications'[i].type = "appointment_accepted"
            /\ notifications'[i].user_id = PatientOf(a)
            /\ notifications'[i].appointment_id = a]_vars

\* C26: createNotification answers 201 to a user creating a notification
\* for themselves and to an admin creating one for any user, and 403 to a
\* non-admin naming another user.
C26_AdminCreatesForAnyUser ==
  reply.op = "createNotification" =>
    /\ reply.key = reply.user => reply.status = 201
    /\ RoleOfUser(reply.user) = "admin" => reply.status = 201
    /\ (RoleOfUser(reply.user) # "admin" /\ reply.key # reply.user) => reply.status = 403

\* The parts of C26 that do not involve an admin: the requester's own
\* notification is created, a non-admin naming another user gets 403.
C26_SelfAndStrangers ==
  reply.op = "createNotification" =>
    /\ reply.key = reply.user => reply.status = 201
    /\ (RoleOfUser(reply.user) # "admin" /\ reply.key # reply.user) => reply.status = 403

\* C28: the payments table holds at most one row for a given
\* (appointment_id, patient_id) pair.
C28_OnePaymentPerAppointment ==
  \A i, j \in DOMAIN payments :
    ( /\ payments[i].appointment_id = payments[j].appointment_id
      /\ payments[i].patient_id = payments[j].patient_id ) => i = j

\* C29: a payment whose status is refunded or cancelled is never set back
\* to completed.
C29_RefundedNeverCompleted ==
  [][\A i \in DOMAIN payments :
       payments[i].payment_status \in {"refunded", "cancelled"}
         => payments'[i].payment_status # "completed"]_vars

\* The part of C29 that verifyPayment and cancelPayment keep: neither sets
\* a refunded or cancelled payment back to completed.
C29_VerifyAndCancelKeepIt ==
  [][reply'.op \in {"verifyPayment", "cancelPayment"} =>
       \A i \in DOMAIN payments :
         payments[i].payment_status \in {"refunded", "cancelled"}
           => payments'[i].payment_status # "completed"]_vars

\* C30: cancelling a payment that the previous request already cancelled
\* leaves its payment_status (and a refund, its refund_amount) as it is.
C30_CancelTwiceAsOnce ==
  [][( /\ reply.op = "cancelPayment" /\ reply.status = 200
       /\ reply'.op = "cancelPayment" /\ reply'.status = 200
       /\ reply'.key = reply.key )
     => payments'[reply.key] = payments[reply.key]]_vars

====
